---- MODULE Spec2Model ----
(***************************************************************************)
(* Model of the product catalog / order intake backend (src/main.py,       *)
(* src/schemas.py).  The document store is a pair of insertion-ordered     *)
(* collections plus the counter from which the store draws fresh           *)
(* identities.  A bounded number of requests arrive; a request that makes  *)
(* at most one store call is served in one step, GET /api/products takes   *)
(* one step per store call, and the steps of different requests            *)
(* interleave.                                                             *)
(*                                                                         *)
(* Encoding of Python values:                                              *)
(*   dict / JSON object   function whose DOMAIN is the set of present keys *)
(*   None                 <<>>           Optional[str] "s"     <<"s">>     *)
(*   int n                [k |-> "int", v |-> n]                           *)
(*   float x              [k |-> "float", v |-> 100 * x]  (hundredths)     *)
(*   ObjectId             [oid |-> n]; str(ObjectId) is the number n that  *)
(*                        its hexadecimal rendering encodes                *)
(* Status strings of GET /test are kept without their leading pictograms.  *)
(***************************************************************************)
EXTENDS Integers, Sequences, FiniteSets, TLC

VARIABLES env, db, product, order, nextId, req, resp, pc, cnt, found

vars == <<env, db, product, order, nextId, req, resp, pc, cnt, found>>

-----------------------------------------------------------------------------
(* Bounds of the model *)

MaxCollections == 11

MaxLegacy == 2

NumRequests == 3

-----------------------------------------------------------------------------
(* Python values *)

None == <<>>

Some(s) == <<s>>

PyInt(n) == [k |-> "int", v |-> n]

PyFloat(c) == [k |-> "float", v |-> c]

float(x) == IF x.k = "int" THEN PyFloat(100 * x.v) ELSE x

bool(b) == (b = TRUE)

ObjectId(n) == [oid |-> n]

str(o) == o.oid

Has(d, f) == f \in DOMAIN d

Get(d, f, default) == IF f \in DOMAIN d THEN d[f] ELSE default

Restrict(d, D) == [f \in D |-> d[f]]

Take(s, n) == SubSeq(s, 1, IF Len(s) < n THEN Len(s) ELSE n)

Last(s) == s[Len(s)]

IsPrefix(s, t) == Len(s) <= Len(t) /\ \A i \in 1..Len(s) : t[i] = s[i]

-----------------------------------------------------------------------------
(* Schemas: src/schemas.py *)

ProductRequired == {"title", "price", "category"}

ProductFields == ProductRequired \cup {"description", "image", "in_stock"}

ProductErrors_nobound(p) == {f \in ProductRequired : ~Has(p, f)}

\* Offending fields of a Product payload: required fields that are absent
\* and price when it violates ge=0.
ProductErrors(p) ==
    {f \in ProductRequired : ~Has(p, f)}
        \cup {f \in {"price"} : Has(p, f) /\ p[f].v < 0}

ValidProduct(p) == ProductErrors(p) = {}

\* The validated Product as it is dumped for storage: price coerced to
\* float, defaults filled in for the optional fields.
ParseProduct(p) ==
    [title       |-> p.title,
     description |-> Get(p, "description", None),
     price       |-> float(p.price),
     category    |-> p.category,
     image       |-> Get(p, "image", None),
     in_stock    |-> Get(p, "in_stock", TRUE)]

ItemRequired == {"product_id", "title", "price", "quantity"}

ItemErrors(it) ==
    {f \in ItemRequired : ~Has(it, f)}
        \cup {f \in {"price"} : Has(it, f) /\ it[f].v < 0}
        \cup {f \in {"quantity"} : Has(it, f) /\ it[f] < 1}

ParseItem(it) ==
    [product_id |-> it.product_id,
     title      |-> it.title,
     price      |-> float(it.price),
     quantity   |-> it.quantity,
     image      |-> Get(it, "image", None)]

MoneyFields == {"subtotal", "shipping", "tax", "total"}

OrderRequired ==
    {"items", "customer_name", "customer_email", "address_line1",
     "city", "state", "postal_code", "country"} \cup MoneyFields

\* Offending top-level fields of an Order payload.  The items field is only
\* required to be present: the list carries no minimum length.
OrderErrors(o) ==
    {f \in OrderRequired : ~Has(o, f)}
        \cup {f \in MoneyFields : Has(o, f) /\ o[f].v < 0}

\* Offending <<position, field>> pairs inside the items list.
OrderItemErrors(o) ==
    IF Has(o, "items")
    THEN {e \in (1..Len(o.items)) \X ItemRequired :
              e[2] \in ItemErrors(o.items[e[1]])}
    ELSE {}

ValidOrder(o) == OrderErrors(o) = {} /\ OrderItemErrors(o) = {}

ParseOrder_recomputed(o) ==
    [items          |-> [i \in 1..Len(o.items) |-> ParseItem(o.items[i])],
     subtotal       |-> float(o.subtotal),
     shipping       |-> float(o.shipping),
     tax            |-> float(o.tax),
     total          |-> PyFloat(float(o.subtotal).v + float(o.shipping).v + float(o.tax).v),
     customer_name  |-> o.customer_name,
     customer_email |-> o.customer_email,
     address_line1  |-> o.address_line1,
     address_line2  |-> Get(o, "address_line2", None),
     city           |-> o.city,
     state          |-> o.state,
     postal_code    |-> o.postal_code,
     country        |-> o.country]

ParseOrder(o) ==
    [items          |-> [i \in 1..Len(o.items) |-> ParseItem(o.items[i])],
     subtotal       |-> float(o.subtotal),
     shipping       |-> float(o.shipping),
     tax            |-> float(o.tax),
     total          |-> float(o.total),
     customer_name  |-> o.customer_name,
     customer_email |-> o.customer_email,
     address_line1  |-> o.address_line1,
     address_line2  |-> Get(o, "address_line2", None),
     city           |-> o.city,
     state          |-> o.state,
     postal_code    |-> o.postal_code,
     country        |-> o.country]

-----------------------------------------------------------------------------
(* Document store *)

Store == [product |-> product, order |-> order, nextId |-> nextId]

\* The store's view of a document after insertion: the document plus the
\* identity the store assigned.
WithId(data, n) ==
    [f \in (DOMAIN data) \cup {"_id"} |->
        IF f = "_id" THEN ObjectId(n) ELSE data[f]]

count_documents(coll) == Len(coll)

insert_many_first(st, name, docs) ==
    [st EXCEPT ![name] = Append(@, WithId(docs[1], st.nextId)),
               !.nextId = @ + 1]

\* One batch insert: every document of the batch is appended, in order, each
\* with a fresh identity.
insert_many(st, name, docs) ==
    [st EXCEPT
        ![name] = @ \o [i \in 1..Len(docs) |-> WithId(docs[i], st.nextId + i - 1)],
        !.nextId = @ + Len(docs)]

\* insert(collectionName, document) -> id
create_document(st, name, data) ==
    [st |-> [st EXCEPT ![name] = Append(@, WithId(data, st.nextId)),
                       !.nextId = @ + 1],
     id |-> str(ObjectId(st.nextId))]

-----------------------------------------------------------------------------
(* Responses *)

HTTPException(code, detail) == [status |-> code, body |-> [detail |-> detail]]

\* Rejection of a request body by the schema, before the handler runs.
Unprocessable(fields, items) ==
    [status |-> 422, body |-> [detail |-> fields, items |-> items]]

OK(body) == [status |-> 200, body |-> body]

-----------------------------------------------------------------------------
(* GET /api/products *)

db_missing_never(dbv) == FALSE

\* db is None
db_missing(dbv) == dbv = "None"

sample_products ==
    << [title       |-> "Minimalist Chair",
        description |-> Some("A modern, comfortable chair with a minimalist design."),
        price       |-> PyFloat(8999),
        category    |-> "Furniture",
        image       |-> Some("https://images.unsplash.com/photo-1549187774-b4e9b0445b41?q=80&w=1200&auto=format&fit=crop"),
        in_stock    |-> TRUE],
       [title       |-> "Wireless Headphones",
        description |-> Some("Noise-cancelling over-ear headphones with 30h battery."),
        price       |-> PyFloat(12900),
        category    |-> "Electronics",
        image       |-> Some("https://images.unsplash.com/photo-1518449037270-3c0758cd7ed0?q=80&w=1200&auto=format&fit=crop"),
        in_stock    |-> TRUE],
       [title       |-> "Ceramic Mug",
        description |-> Some("Handmade ceramic mug for coffee or tea (350ml)."),
        price       |-> PyFloat(1650),
        category    |-> "Kitchen",
        image       |-> Some("https://images.unsplash.com/photo-1509463531436-7b8b53f6d4ba?q=80&w=1200&auto=format&fit=crop"),
        in_stock    |-> TRUE] >>

SeedTitles == {sample_products[i].title : i \in 1..Len(sample_products)}

SeedNeeded_upto3(n) == n <= 3

SeedNeeded(n) == n = 0

to_response_nodefaults(doc) ==
    [ok    |-> Has(doc, "title"),
     value |-> [id          |-> str(doc["_id"]),
                title       |-> Get(doc, "title", ""),
                description |-> Get(doc, "description", None),
                price       |-> float(Get(doc, "price", PyInt(1))),
                category    |-> Get(doc, "category", ""),
                image       |-> Get(doc, "image", None),
                in_stock    |-> bool(Get(doc, "in_stock", FALSE))]]

\* ok is FALSE when ProductResponse rejects the mapped values: title is a
\* required str and doc.get("title") is None for a document without one.
to_response(doc) ==
    [ok    |-> Has(doc, "title"),
     value |-> [id          |-> str(doc["_id"]),
                title       |-> Get(doc, "title", ""),
                description |-> Get(doc, "description", None),
                price       |-> float(Get(doc, "price", PyInt(0))),
                category    |-> Get(doc, "category", "General"),
                image       |-> Get(doc, "image", None),
                in_stock    |-> bool(Get(doc, "in_stock", TRUE))]]

\* The response built from the documents that find() returned.
map_products(products) ==
    LET mapped == [i \in 1..Len(products) |-> to_response(products[i])]
    IN  IF \E i \in 1..Len(products) : ~mapped[i].ok
        THEN HTTPException(500, "Internal Server Error")
        ELSE OK([i \in 1..Len(products) |-> mapped[i].value])

-----------------------------------------------------------------------------
(* POST /api/products, POST /api/orders *)

create_product_twice(dbv, st, payload) ==
    IF ~ValidProduct(payload)
    THEN [st |-> st, resp |-> Unprocessable(ProductErrors(payload), {})]
    ELSE IF db_missing(dbv)
    THEN [st |-> st, resp |-> HTTPException(500, "Database not configured")]
    ELSE LET r1 == create_document(st, "product", ParseProduct(payload))
             r2 == create_document(r1.st, "product", ParseProduct(payload))
         IN  [st |-> r2.st, resp |-> OK([id |-> r2.id])]

create_product(dbv, st, payload) ==
    IF ~ValidProduct(payload)
    THEN [st |-> st, resp |-> Unprocessable(ProductErrors(payload), {})]
    ELSE IF db_missing(dbv)
    THEN [st |-> st, resp |-> HTTPException(500, "Database not configured")]
    ELSE LET r == create_document(st, "product", ParseProduct(payload))
         IN  [st |-> r.st, resp |-> OK([id |-> r.id])]

create_order_decrement(dbv, st, payload) ==
    IF ~ValidOrder(payload)
    THEN [st |-> st,
          resp |-> Unprocessable(OrderErrors(payload), OrderItemErrors(payload))]
    ELSE IF db_missing(dbv)
    THEN [st |-> st, resp |-> HTTPException(500, "Database not configured")]
    ELSE LET r == create_document(st, "order", ParseOrder(payload))
             bought == {payload.items[i].product_id : i \in 1..Len(payload.items)}
             sold == [i \in 1..Len(r.st.product) |->
                         IF str(r.st.product[i]["_id"]) \in bought
                         THEN [r.st.product[i] EXCEPT !.in_stock = FALSE]
                         ELSE r.st.product[i]]
         IN  [st |-> [r.st EXCEPT !.product = sold],
              resp |-> OK([id |-> r.id, status |-> "received"])]

create_order(dbv, st, payload) ==
    IF ~ValidOrder(payload)
    THEN [st |-> st,
          resp |-> Unprocessable(OrderErrors(payload), OrderItemErrors(payload))]
    ELSE IF db_missing(dbv)
    THEN [st |-> st, resp |-> HTTPException(500, "Database not configured")]
    ELSE LET r == create_document(st, "order", ParseOrder(payload))
         IN  [st |-> r.st, resp |-> OK([id |-> r.id, status |-> "received"])]

-----------------------------------------------------------------------------
(* GET /, GET /api/hello, GET /test *)

read_root == OK([message |-> "Hello from FastAPI Backend!"])

hello == OK([message |-> "Hello from the backend API!"])

first_collections_all(names) == names

first_collections(names) == Take(names, 10)

\* outcome is what db.list_collection_names() does when it is called:
\* [ok |-> TRUE, names |-> ...] or [ok |-> FALSE, msg |-> str(e)].
test_database(dbv, envv, outcome) ==
    LET r0 == [backend           |-> "Running",
               database          |-> "Not Available",
               error             |-> <<>>,
               database_url      |-> "None",
               database_name     |-> "None",
               connection_status |-> "Not Connected",
               collections       |-> <<>>]
        r1 == IF dbv # "None"
              THEN LET c == [r0 EXCEPT !.database = "Available",
                                       !.database_url = "Configured",
                                       !.database_name = "name",
                                       !.connection_status = "Connected"]
                   IN  IF outcome.ok
                       THEN [c EXCEPT !.collections = first_collections(outcome.names),
                                      !.database = "Connected & Working"]
                       ELSE [c EXCEPT !.database = "Connected but Error: ",
                                      !.error = Take(outcome.msg, 50)]
              ELSE [r0 EXCEPT !.database = "Available but not initialized"]
        r2 == [r1 EXCEPT !.database_url = IF envv.url THEN "Set" ELSE "Not Set",
                         !.database_name = IF envv.name THEN "Set" ELSE "Not Set"]
    IN  OK(r2)

-----------------------------------------------------------------------------
(* Request inputs *)

ProductFull ==
    [title       : {"Desk Lamp"},
     description : {Some("LED desk lamp")},
     price       : {PyInt(0), PyFloat(2550), PyInt(-1)},
     category    : {"Home"},
     image       : {Some("https://example.com/lamp.jpg")},
     in_stock    : {FALSE}]

ProductPayloads ==
    {Restrict(r, ProductRequired \cup O) :
        r \in ProductFull, O \in {{}, {"description", "image", "in_stock"}}}
    \cup {Restrict(r, ProductRequired \ {f}) :
            r \in {x \in ProductFull : x.price = PyFloat(2550)}, f \in ProductRequired}

ItemA ==
    [product_id |-> 0, title |-> "Minimalist Chair",
     price |-> PyFloat(500), quantity |-> 2]

ItemB ==
    [product_id |-> 2, title |-> "Ceramic Mug", price |-> PyInt(3),
     quantity |-> 1, image |-> Some("https://example.com/mug.jpg")]

BadItemLists ==
    {<<[ItemA EXCEPT !.quantity = 0]>>,
     <<ItemA, [ItemB EXCEPT !.price = PyFloat(-1)]>>,
     <<Restrict(ItemA, ItemRequired \ {"title"})>>}

OrderBase(items, total) ==
    [items          |-> items,
     subtotal       |-> PyFloat(1000),
     shipping       |-> PyInt(5),
     tax            |-> PyFloat(100),
     total          |-> total,
     customer_name  |-> "Ada Lovelace",
     customer_email |-> "ada@example.com",
     address_line1  |-> "12 St James Square",
     city           |-> "London",
     state          |-> "LND",
     postal_code    |-> "SW1Y 4JH",
     country        |-> "UK"]

OrderWithLine2 ==
    [f \in OrderRequired \cup {"address_line2"} |->
        IF f = "address_line2" THEN Some("Flat 2")
        ELSE OrderBase(<<ItemA>>, PyFloat(1600))[f]]

OrderPayloads ==
    {OrderBase(<<>>, PyFloat(1600)), OrderBase(<<ItemA>>, PyFloat(1600)),
     OrderBase(<<ItemA, ItemB>>, PyFloat(9900)), OrderWithLine2}
    \cup {OrderBase(items, PyFloat(1600)) : items \in BadItemLists}
    \cup {Restrict(OrderBase(<<ItemA>>, PyFloat(1600)), OrderRequired \ {f}) : f \in OrderRequired}
    \cup {[OrderBase(<<ItemA>>, PyFloat(1600)) EXCEPT ![f] = PyFloat(-1)] : f \in MoneyFields}

ErrLens == {0, 49, 50, 51}

ListOutcomes ==
    {[ok |-> TRUE, names |-> [i \in 1..n |-> i], msg |-> <<>>] : n \in 0..MaxCollections}
    \cup {[ok |-> FALSE, names |-> <<>>, msg |-> [i \in 1..n |-> "e"]] : n \in ErrLens}

-----------------------------------------------------------------------------
(* The service *)

\* The requests that arrive, numbered in the order in which they start.
Requests == 1..NumRequests

\* The store handle is established once at start-up from the environment
\* and is absent unless the connection settings are present.
Connect(envv) == IF envv.url /\ envv.name THEN "Mongo" ELSE "None"

NoneStarted ==
    /\ pc = [r \in Requests |-> "new"]
    /\ cnt = [r \in Requests |-> 0]
    /\ found = [r \in Requests |-> <<>>]

Init ==
    /\ env \in [url : BOOLEAN, name : BOOLEAN]
    /\ db = Connect(env)
    /\ product = <<>>
    /\ order = <<>>
    /\ nextId = 0
    /\ req = [id |-> 0, route |-> "none", payload |-> <<>>]
    /\ resp = [status |-> 0, body |-> <<>>]
    /\ NoneStarted

Starts(r) == pc[r] = "new" /\ (IF r = 1 THEN TRUE ELSE pc[r - 1] # "new")

\* A handler that makes at most one store call, run from the arrival of the
\* request to its response.
Serve(r, route, payload, res) ==
    /\ Starts(r)
    /\ pc' = [pc EXCEPT ![r] = "done"]
    /\ req' = [id |-> r, route |-> route, payload |-> payload]
    /\ resp' = res.resp
    /\ product' = res.st.product
    /\ order' = res.st.order
    /\ nextId' = res.st.nextId
    /\ UNCHANGED <<env, db, cnt, found>>

GetRoot(r) == Serve(r, "GET /", <<>>, [st |-> Store, resp |-> read_root])

GetHello(r) == Serve(r, "GET /api/hello", <<>>, [st |-> Store, resp |-> hello])

GetTest(r) ==
    \E outcome \in ListOutcomes :
        Serve(r, "GET /test", outcome,
              [st |-> Store, resp |-> test_database(db, env, outcome)])

PostProducts(r) ==
    \E payload \in ProductPayloads :
        Serve(r, "POST /api/products", payload, create_product(db, Store, payload))

PostOrders(r) ==
    \E payload \in OrderPayloads :
        Serve(r, "POST /api/orders", payload, create_order(db, Store, payload))

\* GET /api/products: the handle check and count_documents({}).
ListCount(r) ==
    /\ Starts(r)
    /\ IF db_missing(db)
       THEN /\ req' = [id |-> r, route |-> "GET /api/products", payload |-> <<>>]
            /\ resp' = HTTPException(500, "Database not configured")
            /\ pc' = [pc EXCEPT ![r] = "done"]
            /\ UNCHANGED cnt
       ELSE /\ cnt' = [cnt EXCEPT ![r] = count_documents(product)]
            /\ pc' = [pc EXCEPT ![r] = "counted"]
            /\ UNCHANGED <<req, resp>>
    /\ UNCHANGED <<env, db, product, order, nextId, found>>

\* GET /api/products: the branch on the count observed earlier, and
\* insert_many when it is taken.
ListSeed(r) ==
    /\ pc[r] = "counted"
    /\ LET st1 == IF SeedNeeded(cnt[r])
                  THEN insert_many(Store, "product", sample_products)
                  ELSE Store
       IN  /\ product' = st1.product
           /\ nextId' = st1.nextId
    /\ pc' = [pc EXCEPT ![r] = "seeded"]
    /\ UNCHANGED <<env, db, order, req, resp, cnt, found>>

\* GET /api/products: find().
ListFind(r) ==
    /\ pc[r] = "seeded"
    /\ found' = [found EXCEPT ![r] = product]
    /\ pc' = [pc EXCEPT ![r] = "found"]
    /\ UNCHANGED <<env, db, product, order, nextId, req, resp, cnt>>

\* GET /api/products: the mapping of the documents found, and the response.
ListReturn(r) ==
    /\ pc[r] = "found"
    /\ req' = [id |-> r, route |-> "GET /api/products", payload |-> <<>>]
    /\ resp' = map_products(found[r])
    /\ pc' = [pc EXCEPT ![r] = "done"]
    /\ cnt' = [cnt EXCEPT ![r] = 0]
    /\ found' = [found EXCEPT ![r] = <<>>]
    /\ UNCHANGED <<env, db, product, order, nextId>>

Step(r) ==
    \/ GetRoot(r)
    \/ GetHello(r)
    \/ GetTest(r)
    \/ PostProducts(r)
    \/ PostOrders(r)
    \/ ListCount(r)
    \/ ListSeed(r)
    \/ ListFind(r)
    \/ ListReturn(r)

Next == \E r \in Requests : Step(r)

Spec == Init /\ [][Next]_vars

-----------------------------------------------------------------------------
(* The service when requests do not overlap: a request takes a step only   *)
(* while no other request is between its first store call and its          *)
(* response.                                                               *)

Alone(r) == \A q \in Requests \ {r} : pc[q] \in {"new", "done"}

NextSeq == \E r \in Requests : Alone(r) /\ Step(r)

SpecSeq == Init /\ [][NextSeq]_vars

-----------------------------------------------------------------------------
(* The product listing over a collection that already holds documents      *)
(* written by other means, some of them lacking fields.                    *)

LegacyFull ==
    [title       |-> "Enamel Pot",
     description |-> Some("Imported before the schema existed"),
     price       |-> PyInt(5),
     category    |-> "Kitchen",
     image       |-> Some("https://example.com/pot.jpg"),
     in_stock    |-> FALSE]

LegacyDocs == {Restrict(LegacyFull, D) : D \in SUBSET ProductFields}

InitMap ==
    /\ env = [url |-> TRUE, name |-> TRUE]
    /\ db = Connect(env)
    /\ \E n \in 1..MaxLegacy :
          \E ds \in [1..n -> LegacyDocs] :
              /\ product = [i \in 1..n |-> WithId(ds[i], i - 1)]
              /\ nextId = n
    /\ order = <<>>
    /\ req = [id |-> 0, route |-> "none", payload |-> <<>>]
    /\ resp = [status |-> 0, body |-> <<>>]
    /\ NoneStarted

NextMap ==
    \/ ListCount(1)
    \/ ListSeed(1)
    \/ ListFind(1)
    \/ ListReturn(1)

SpecMap == InitMap /\ [][NextMap]_vars

-----------------------------------------------------------------------------
(* Properties *)

Titles(docs) == [i \in 1..Len(docs) |-> docs[i].title]

SeedTitleSeq == <<"Minimalist Chair", "Wireless Headphones", "Ceramic Mug">>

Ids(docs) == {str(docs[i]["_id"]) : i \in 1..Len(docs)}

RespIds(body) == {body[j].id : j \in 1..Len(body)}

Cents(x) == IF x.k = "int" THEN 100 * x.v ELSE x.v

Configured == db # "None"

\* The step that serves request r, of the given route, from arrival to response.
Serves(r, route) ==
    pc[r] = "new" /\ pc'[r] = "done" /\ req'.id = r /\ req'.route = route

\* The steps of a GET /api/products request r.
Counts(r) == pc[r] = "new" /\ pc'[r] = "counted"

Seeds(r) == pc[r] = "counted" /\ pc'[r] = "seeded"

Finds(r) == pc[r] = "seeded" /\ pc'[r] = "found"

Returns(r) == pc[r] = "found" /\ pc'[r] = "done"

Lists(r) ==
    Counts(r) \/ Seeds(r) \/ Finds(r) \/ Returns(r) \/ Serves(r, "GET /api/products")

\* A request body that breaks a constraint of the Product schema.
ProductViolation(p) ==
    \/ \E f \in {"title", "price", "category"} : ~Has(p, f)
    \/ Has(p, "price") /\ Cents(p.price) < 0

ItemViolation(it) ==
    \/ \E f \in {"product_id", "title", "price", "quantity"} : ~Has(it, f)
    \/ Has(it, "price") /\ Cents(it.price) < 0
    \/ Has(it, "quantity") /\ it.quantity < 1

\* A request body that breaks a constraint of the Order schema.
OrderViolation(o) ==
    \/ \E f \in OrderRequired : ~Has(o, f)
    \/ \E f \in MoneyFields : Has(o, f) /\ Cents(o[f]) < 0
    \/ Has(o, "items") /\ \E i \in 1..Len(o.items) : ItemViolation(o.items[i])

\* C1: when requests do not overlap and the store is configured, a GET
\* /api/products that finds the product collection empty inserts exactly the
\* three seed products, in order, and answers with exactly those three; a GET
\* /api/products that finds it non-empty inserts nothing and answers with
\* the collection as it is.
C1_SeedOnce ==
    [][ \A r \in Requests :
          /\ Seeds(r) =>
                IF product = <<>>
                THEN /\ Len(product') = 3
                     /\ Titles(product') = SeedTitleSeq
                ELSE product' = product
          /\ Returns(r) =>
                /\ resp'.status = 200
                /\ Titles(resp'.body) = Titles(product)
                /\ RespIds(resp'.body) = Ids(product)
                /\ Len(resp'.body) = Len(product)
                /\ cnt[r] = 0 => Titles(resp'.body) = SeedTitleSeq ]_vars

\* The second of two GET /api/products has counted the three seed rows and
\* passed its seed branch without inserting.
C1_Witness ==
    /\ pc[1] = "done"
    /\ pc[2] = "seeded"
    /\ cnt[2] = 3
    /\ Len(product) = 3
    /\ Titles(product) = SeedTitleSeq
    /\ req.route = "GET /api/products"
    /\ req.id = 1
    /\ Titles(resp.body) = SeedTitleSeq

\* C2: with a configured store, a POST /api/products with a valid payload
\* adds exactly one document to the product collection and returns the id of
\* that document, an id no earlier document has; no step removes a product
\* document, and the response of a GET /api/products holds the id of every
\* product document that was stored when the request made its first store
\* call.
C2_CreatedIsListed ==
    [][ /\ \A r \in Requests :
              /\ (Serves(r, "POST /api/products") /\ Configured
                      /\ ~ProductViolation(req'.payload)) =>
                    /\ resp'.status = 200
                    /\ Len(product') = Len(product) + 1
                    /\ str(Last(product')["_id"]) = resp'.body.id
                    /\ resp'.body.id \notin Ids(product)
              /\ Returns(r) =>
                    /\ resp'.status = 200
                    /\ cnt[r] <= Len(product)
                    /\ Ids(SubSeq(product, 1, cnt[r])) \subseteq RespIds(resp'.body)
        /\ IsPrefix(product, product') ]_vars

\* A GET /api/products that began after a product was created lists it.
C2_Witness ==
    /\ req.route = "GET /api/products"
    /\ req.id = 3
    /\ resp.status = 200
    /\ Len(product) = 4
    /\ product[4].title = "Desk Lamp"
    /\ str(product[4]["_id"]) \in RespIds(resp.body)

\* C3: in every store state, a POST /api/products or POST /api/orders whose
\* payload violates a schema constraint is answered 422 and leaves the
\* product collection, the order collection and the identity counter
\* unchanged.
C3_InvalidRejected ==
    [][ \A r \in Requests :
          ( \/ Serves(r, "POST /api/products") /\ ProductViolation(req'.payload)
            \/ Serves(r, "POST /api/orders") /\ OrderViolation(req'.payload) ) =>
              /\ resp'.status = 422
              /\ product' = product
              /\ order' = order
              /\ nextId' = nextId ]_vars

C3_Witness ==
    /\ req.route = "POST /api/products"
    /\ Has(req.payload, "price")
    /\ req.payload.price.v < 0
    /\ resp.status = 422
    /\ "price" \in resp.body.detail

UnconfiguredServerErrors ==
    /\ product = <<>> /\ order = <<>> /\ nextId = 0
    /\ ( \/ req.route = "GET /api/products"
         \/ req.route = "POST /api/products" /\ ~ProductViolation(req.payload)
         \/ req.route = "POST /api/orders" /\ ~OrderViolation(req.payload) ) =>
            resp.status = 500

\* C4 as stated: with the store unconfigured, the three product/order
\* endpoints answer 500 and touch nothing, and GET /test answers 200 with
\* database "Not Available", connection_status "Not Connected" and no
\* collections.
C4_Original ==
    ~Configured =>
        /\ UnconfiguredServerErrors
        /\ req.route = "GET /test" =>
              /\ resp.status = 200
              /\ resp.body.database = "Not Available"
              /\ resp.body.connection_status = "Not Connected"
              /\ resp.body.collections = <<>>

\* C4 amended: as C4, except that the database status GET /test reports for
\* an unconfigured store is "Available but not initialized".
C4_Unconfigured ==
    ~Configured =>
        /\ UnconfiguredServerErrors
        /\ req.route = "GET /test" =>
              /\ resp.status = 200
              /\ resp.body.database = "Available but not initialized"
              /\ resp.body.connection_status = "Not Connected"
              /\ resp.body.collections = <<>>

C4_Witness ==
    /\ ~Configured
    /\ req.route = "GET /test"
    /\ resp.status = 200
    /\ resp.body.database = "Available but not initialized"

SameItem(d, it) ==
    /\ d.product_id = it.product_id
    /\ d.title = it.title
    /\ Cents(d.price) = Cents(it.price)
    /\ d.quantity = it.quantity
    /\ d.image = Get(it, "image", None)

\* C5: with a configured store, a POST /api/orders with a valid payload adds
\* exactly one document to the order collection, answers {id, status:
\* "received"} with the id of that document, and the stored items, monetary
\* fields, customer fields and address fields are those of the payload.
C5_OrderVerbatim ==
    [][ ((\E r \in Requests : Serves(r, "POST /api/orders")) /\ Configured
            /\ ~OrderViolation(req'.payload)) =>
            /\ Len(order') = Len(order) + 1
            /\ IsPrefix(order, order')
            /\ resp' = OK([id |-> str(Last(order')["_id"]), status |-> "received"])
            /\ LET d == Last(order')
                   o == req'.payload
               IN  /\ Len(d.items) = Len(o.items)
                   /\ \A i \in 1..Len(o.items) : SameItem(d.items[i], o.items[i])
                   /\ \A f \in MoneyFields : Cents(d[f]) = Cents(o[f])
                   /\ \A f \in OrderRequired \ (MoneyFields \cup {"items"}) : d[f] = o[f]
                   /\ d.address_line2 = Get(o, "address_line2", None) ]_vars

C5_Witness ==
    /\ req.route = "POST /api/orders"
    /\ resp.status = 200
    /\ resp.body.status = "received"
    /\ Len(order) > 0
    /\ LET d == Last(order)
       IN  /\ Len(d.items) = 2
           /\ d.total.v # d.subtotal.v + d.shipping.v + d.tax.v
           /\ d.total.v = Cents(req.payload.total)

\* C6: every stored order document has at least one item.
C6_ItemsNonEmpty == \A i \in 1..Len(order) : Len(order[i].items) >= 1

Min(a, b) == IF a < b THEN a ELSE b

\* C7: GET /test always answers 200 with backend running; collections holds
\* the first ten names the store listed, at most, and nothing when the store
\* is unconfigured or the listing raised; an exception of the listing ends up
\* in the database status, cut to 50 characters.
C7_TestNeverFails ==
    req.route = "GET /test" =>
        /\ resp.status = 200
        /\ resp.body.backend = "Running"
        /\ Len(resp.body.collections) <= 10
        /\ (~Configured \/ ~req.payload.ok) => resp.body.collections = <<>>
        /\ (Configured /\ req.payload.ok) =>
              /\ IsPrefix(resp.body.collections, req.payload.names)
              /\ Len(resp.body.collections) = Min(10, Len(req.payload.names))
              /\ resp.body.database = "Connected & Working"
        /\ (Configured /\ ~req.payload.ok) =>
              /\ resp.body.database = "Connected but Error: "
              /\ IsPrefix(resp.body.error, req.payload.msg)
              /\ Len(resp.body.error) = Min(50, Len(req.payload.msg))

C7_Witness ==
    /\ req.route = "GET /test"
    /\ Configured
    /\ req.payload.ok
    /\ Len(req.payload.names) > 10
    /\ Len(resp.body.collections) = 10

\* C8: no step removes or changes a stored product or order document; POST
\* /api/orders leaves the product collection as it was, and POST
\* /api/products and every step of GET /api/products leave the order
\* collection as it was.
C8_AppendOnly ==
    [][ /\ IsPrefix(product, product')
        /\ IsPrefix(order, order')
        /\ \A r \in Requests :
              /\ Serves(r, "POST /api/orders") => product' = product
              /\ (Serves(r, "POST /api/products") \/ Lists(r)) => order' = order ]_vars

C8_Witness ==
    /\ req.route = "POST /api/orders"
    /\ resp.status = 200
    /\ Len(product) = 3
    /\ \E i \in 1..Len(Last(order).items) :
          Last(order).items[i].product_id \in Ids(product)

\* C9: when every stored product document has a title, GET /api/products
\* answers with one entry per document, in order, in which a missing
\* in_stock is true, a missing category is "General", a missing price is
\* 0.0, a missing description or image is null, and a present field is the
\* stored value (price as a float).
C9_Defaults ==
    (req.route = "GET /api/products"
        /\ \A i \in 1..Len(product) : Has(product[i], "title")) =>
        /\ resp.status = 200
        /\ Len(resp.body) = Len(product)
        /\ \A i \in 1..Len(product) :
              LET d == product[i]
                  r == resp.body[i]
              IN  /\ r.id = str(d["_id"])
                  /\ r.title = d.title
                  /\ r.in_stock = (IF Has(d, "in_stock") THEN d.in_stock ELSE TRUE)
                  /\ r.category = (IF Has(d, "category") THEN d.category ELSE "General")
                  /\ r.price = (IF Has(d, "price") THEN PyFloat(Cents(d.price)) ELSE PyFloat(0))
                  /\ r.description = (IF Has(d, "description") THEN d.description ELSE None)
                  /\ r.image = (IF Has(d, "image") THEN d.image ELSE None)

C9_Witness ==
    /\ req.route = "GET /api/products"
    /\ resp.status = 200
    /\ Len(product) = 2
    /\ DOMAIN product[1] = {"_id", "title"}
    /\ DOMAIN product[2] = {"_id", "title", "price"}
    /\ resp.body[1].in_stock = TRUE
    /\ resp.body[1].category = "General"
    /\ resp.body[1].price = PyFloat(0)

SeedRows(t) == Len(SelectSeq(product, LAMBDA d : d.title = t))

\* C10: with interleaved requests, every seed title has the same number of
\* rows, one per batch inserted, and no more batches are inserted than there
\* are requests; the total number of seed rows is a multiple of three.
C10_SeedBatches ==
    /\ \A t \in SeedTitles : SeedRows(t) = SeedRows("Minimalist Chair")
    /\ SeedRows("Minimalist Chair") <= NumRequests
    /\ (Len(product) - Len(SelectSeq(product, LAMBDA d : d.title \notin SeedTitles))) % 3 = 0

\* Two requests both observed an empty collection and both inserted the
\* batch: six rows, each seed title twice.
C10_Witness ==
    /\ pc[1] = "seeded" /\ cnt[1] = 0
    /\ pc[2] = "seeded" /\ cnt[2] = 0
    /\ Len(product) = 6
    /\ \A t \in SeedTitles : SeedRows(t) = 2

====
